---- MODULE Spec2Model ----
(***************************************************************************)
(* Risk gate and order lifecycle of the rpi-trader execution worker, and   *)
(* the signal filter (SignalProcessor) of its market worker.               *)
(*                                                                         *)
(* Two implementations of ExecutionService live in the repository:        *)
(*   "direct"  apps/execution_worker/execution_service.py                  *)
(*   "bridge"  new_project/apps/execution_worker/execution_service.py      *)
(* The variable impl selects the one a behaviour is about.                 *)
(*                                                                         *)
(* Units: account balances, limits and P&L are whole currency units;       *)
(* signal strength is in hundredths (70 is 0.70); order quantities are in  *)
(* ten-thousandths of a unit (E4), so that a lot size of 0.01 is 100.      *)
(*                                                                         *)
(* The two workers are separate processes: the variable service says which *)
(* one a behaviour is about. Spec is the execution worker, SpecSignals the *)
(* signal filter; its clock now counts minutes.                            *)
(***************************************************************************)
EXTENDS Integers, Sequences, FiniteSets, TLC

\* ---------------------------------------------------------------- bounds
MaxDay == 2
MaxTrades == 2
MaxRealized == 1000
MaxMinute == 16
MaxHistory == 2
MaxGenerators == 2
MaxSimOrders == 2
MaxClock == 3
MaxTasks == 2

\* ------------------------------------------------------- program constants
MinExecutionStrength == 70
RiskPercent == 1
LotUnits == 100000
SimulatedBalance == 10000
E4 == 100 * 100
DefaultMinConfidence == 50
DefaultMinStrength == 30
DefaultCooldownMinutes == 15
HistoryCap == 1000
DefaultWeight == 10
RsiOversold == 30
RsiOverbought == 70

\* ------------------------------------------------------------ input sets
Impls == {"direct", "bridge"}
DailyLossLimits == {0, 1000}
MaxOrderSizes == {500, 10000}
\* Values MAX_DAILY_LOSS and MAX_ORDER_SIZE can be given in the environment.
ConfiguredLossLimits == {-1000, 1000}
ConfiguredOrderSizes == {-500, 500}
Balances == {0, 100000}
Strengths == {-80, 69, 70}
Symbols == {<<"EUR", "USD">>, <<"USD", "JPY">>, <<"EUR", "GBP">>}
Actions == {"BUY", "SELL"}
SignalActions == Actions \cup {"HOLD"}
BrokerReplies == {"success", "rejected", "raise"}
\* The ledger stores the trade, or the post fails (a response other than 200
\* or an exception: _record_trade only logs either).
LedgerReplies == {"stored", "failed"}
PnlAmounts == {-1000}
\* Balances and strengths _calculate_position_size is applied to on its own.
SizingBalances == {0, 10000, 100000}
SizingStrengths == {-80, 30, 80, 100}
\* Strengths that pass the strength gate of process_signal.
ExecutableStrengths == {70, 85, 100}
\* Quantities of simulated orders, in E4: 0.01 lot and 80 units.
SimQuantities == {100, 80 * E4}

MarketSymbols == {"EURUSD", "GBPUSD"}
CombinedStrengths == {29, 30}
CombinedConfidences == {49, 50}
Ticks == {5, 11}
\* Readings the wall clock can be set back to.
EarlierReadings == {0}
FilterSettings ==
  {[min_confidence |-> DefaultMinConfidence, min_strength |-> DefaultMinStrength,
    cooldown_minutes |-> DefaultCooldownMinutes],
   [min_confidence |-> DefaultMinConfidence, min_strength |-> DefaultMinStrength,
    cooldown_minutes |-> 5]}

NoTrade == [status |-> "NONE"]
NoAccount == [kind |-> "none"]
NoResult == [op |-> "none", status |-> "none", reason |-> "none"]
NoSignal == [kind |-> "none"]
NoRecord == [status |-> "NONE"]
NoPmResult == [returned |-> "nothing yet"]

\* Signal names of the generators (two generators may carry the same name:
\* every MovingAverageSignal is called MA_CROSSOVER), and the weights they
\* are added with, in tenths.
GeneratorNames == {"MA_CROSSOVER", "RSI_SIGNAL"}
Weights == {-10, 10, 20}
\* What calculate of a registered generator can do: return a signal, return
\* none (or be skipped for a short or malformed series), or raise.
CalculateReplies ==
  [kind : {"signal"}, action : Actions, strength : {80}, confidence : {60}]
  \cup [kind : {"signal"}, action : Actions, strength : {40}, confidence : {50}]
  \cup {[kind |-> "none"], [kind |-> "raise"]}
NoCombined == [kind |-> "nothing yet"]

\* Indicator values the generators read from a series: moving averages,
\* RSI, MACD histogram and line, and price, mean and band half-width.
Means == {1, 2, 3}
RsiValues == {0, 25, 50, 75, 100}
Histograms == {-1, 0, 1}
MacdValues == {-2, 0, 1}
Prices == {99, 100, 102}
Bands == {0, 1}
NoCalculation == [kind |-> "nothing yet"]
NoSize == [kind |-> "nothing yet"]
\* The process_signal calls that can be in flight at once, the signal each
\* of them carries, and a call that is not running.
Tasks == 1..MaxTasks
StrongSignal == [symbol |-> <<"EUR", "USD">>, action |-> "BUY", strength |-> 80]
NotRunning == [at |-> "idle", quantity |-> 0]
\* The columns validate_data requires of the bars handed to a generator.
BarColumns == {"timestamp", "open", "high", "low", "close", "volume"}
NoBotReply == [text |-> "nothing yet"]
\* The Authorization header of a request: absent, or a bearer token that is
\* or is not settings.api_token.
NoAuthorization == "missing"
Authorizations == {NoAuthorization, "Bearer other", "Bearer API_TOKEN"}
NoCycle == [kind |-> "nothing yet"]
NoAnalysis == -1
\* Local times the market service can be started at: any weekday (0 is
\* Monday) and hour, at some minutes of the hour.
Weekdays == 0..6
Hours == 0..23
StartMinutes == {10, 30, 45}

VARIABLES
  impl,               \* which ExecutionService implementation runs
  dry_run_mode,       \* settings.dry_run_mode
  bvm_mt5_enabled,    \* settings.bvm_mt5_enabled (bridge only)
  daily_loss_limit,   \* Decimal(settings.max_daily_loss)
  max_order_size,     \* Decimal(settings.max_order_size)
  phase,              \* "constructed", "running" or "failed"
  mt5_connected,      \* mt5_client.is_connected() (bridge only)
  trading_enabled,
  emergency_stop,
  daily_pnl,
  daily_trades_count,
  last_reset_date,
  today,              \* datetime.utcnow().date(), as a day number
  result,             \* what the most recent public operation returned
  trade,              \* the Trade the most recent operation created, if any
  recorded,           \* whether that operation posted the Trade to the ledger
  alerts,             \* titles the most recent operation sent to the alert sink
  signal,             \* the signal the most recent process_signal was given
  ledger,             \* what the trade ledger stored for the most recent operation
  place_order_calls,  \* place_order calls the most recent operation made
  realized_today,     \* broker side: realized P&L of the deals closed today
  open_deal,          \* broker side: a filled order whose P&L is not realized yet
  service,            \* "execution_worker" or "market_worker"
  signal_history,     \* SignalProcessor.signal_history
  min_confidence,     \* SignalProcessor.min_confidence, in hundredths
  min_strength,       \* SignalProcessor.min_strength, in hundredths
  cooldown_minutes,   \* SignalProcessor.cooldown_period, in minutes
  now,                \* datetime.utcnow(), in minutes
  pm_result,          \* what the most recent process_market_data returned
  signals,            \* SignalGenerator.signals, with the weight each was added with
  weights,            \* SignalGenerator.weights, by signal name
  combined,           \* what the most recent get_combined_signal returned
  calculated,         \* what the most recent calculate of a generator did
  position,           \* what the most recent _calculate_position_size returned
  utc_clock,          \* datetime.utcnow(), in microseconds
  sim_orders,         \* the simulated executions so far
  inflight,           \* where each concurrent process_signal call is suspended
  attempts,           \* process_signal calls that reached order execution
  stop_breached,      \* an order was submitted or filled during an emergency stop
  accepted,           \* signals appended to the history since it was last cleared
  columns,            \* columns of the DataFrame handed to the generators
  bot_reply,          \* what the bot's /stop_trading handler replied
  local_time,         \* the market worker's local time: day, weekday, hour, minute
  analysis_date,      \* day of the latest stored end-of-day analysis
  cycle               \* what the latest analysis cycle of the market worker did

config == <<impl, dry_run_mode, bvm_mt5_enabled, daily_loss_limit, max_order_size>>
risk == <<trading_enabled, emergency_stop, daily_pnl, daily_trades_count, last_reset_date>>
outcome == <<result, trade, recorded, alerts, signal, ledger, place_order_calls>>
broker_side == <<realized_today, open_deal>>
filters == <<min_confidence, min_strength, cooldown_minutes>>
processor == <<service, signal_history, filters, now, pm_result>>
combiner == <<signals, weights, combined>>
simulation == <<utc_clock, sim_orders>>
concurrent == <<inflight, attempts, stop_breached>>
eod == <<local_time, analysis_date, cycle>>
components == <<combiner, calculated, position, simulation, concurrent>>
auxiliary == <<accepted, columns, bot_reply, eod>>
others == <<components, auxiliary>>
vars == <<config, phase, mt5_connected, risk, today, outcome, broker_side, processor,
          others>>

\* ------------------------------------------------------------- helpers
Abs(x) == IF x < 0 THEN 0 - x ELSE x

\* Mutant: quantize rounds away from zero.
RoundHalfEven_rounds_up(n, d) ==
  LET a == Abs(n)
      m == (a + d - 1) \div d
  IN IF n < 0 THEN 0 - m ELSE m

\* Decimal.quantize under the default context: round half to even.
\* The result is the number of whole d's nearest to n.
RoundHalfEven(n, d) ==
  LET a == Abs(n)
      q == a \div d
      r == a % d
      up == IF 2 * r > d THEN 1
            ELSE IF 2 * r < d THEN 0
            ELSE q % 2
      m == q + up
  IN IF n < 0 THEN 0 - m ELSE m

Result(op, status, reason) == [op |-> op, status |-> status, reason |-> reason]

\* ------------------------------------------------------------ daily reset
\* Mutant: the reset on a new date leaves the trade counter alone.
check_and_reset_daily_limits_keeps_count ==
  IF today > last_reset_date
  THEN [daily_pnl |-> 0,
        daily_trades_count |-> daily_trades_count,
        last_reset_date |-> today,
        trading_enabled |-> IF ~emergency_stop THEN ~dry_run_mode
                            ELSE trading_enabled]
  ELSE [daily_pnl |-> daily_pnl,
        daily_trades_count |-> daily_trades_count,
        last_reset_date |-> last_reset_date,
        trading_enabled |-> trading_enabled]

\* The risk state after _check_and_reset_daily_limits.
check_and_reset_daily_limits ==
  IF today > last_reset_date
  THEN [daily_pnl |-> 0,
        daily_trades_count |-> 0,
        last_reset_date |-> today,
        trading_enabled |-> IF ~emergency_stop THEN ~dry_run_mode
                            ELSE trading_enabled]
  ELSE [daily_pnl |-> daily_pnl,
        daily_trades_count |-> daily_trades_count,
        last_reset_date |-> last_reset_date,
        trading_enabled |-> trading_enabled]

\* Whether the loss limit is breached once the reset check has run.
LossLimitBreached(r) == r.daily_pnl <= 0 - daily_loss_limit

\* Mutant: the breach is reported but trading is left enabled.
check_daily_limits_keeps_trading ==
  LET r == check_and_reset_daily_limits
  IN  [daily_pnl |-> r.daily_pnl,
       daily_trades_count |-> r.daily_trades_count,
       last_reset_date |-> r.last_reset_date,
       trading_enabled |-> r.trading_enabled,
       ok |-> ~(r.daily_pnl <= 0 - daily_loss_limit)]

\* The risk state after _check_daily_limits, and what it returned (ok).
check_daily_limits ==
  LET r == check_and_reset_daily_limits
  IN  [daily_pnl |-> r.daily_pnl,
       daily_trades_count |-> r.daily_trades_count,
       last_reset_date |-> r.last_reset_date,
       trading_enabled |-> IF LossLimitBreached(r) THEN FALSE
                           ELSE r.trading_enabled,
       ok |-> ~LossLimitBreached(r)]

\* ---------------------------------------------------------- position size
\* Whether the simulated account, prices and fills are used.
UseSimulation ==
  IF impl = "direct" THEN dry_run_mode
  ELSE dry_run_mode \/ ~bvm_mt5_enabled \/ ~mt5_connected

\* What the broker can answer to an account query: a balance, nothing, or
\* an exception (which _get_account_info turns into nothing).
AccountReplies ==
  [kind : {"info"}, balance : Balances] \cup [kind : {"none", "raise"}]

get_account_info(reply) ==
  IF UseSimulation THEN [kind |-> "info", balance |-> SimulatedBalance]
  ELSE IF reply.kind = "info" THEN reply
  ELSE NoAccount

endswith_USD(symbol) == symbol[Len(symbol)] = "USD"

startswith_USD(symbol) == symbol[1] = "USD"

\* Mutant: the maximum order size is not applied.
calculate_position_size_unclamped(symbol, strength, account) ==
  IF account = NoAccount THEN 0
  ELSE
    LET position_size == account.balance * RiskPercent * Abs(strength)
    IN  IF endswith_USD(symbol) \/ startswith_USD(symbol)
        THEN RoundHalfEven(position_size, LotUnits * (E4 \div 100)) * (E4 \div 100)
        ELSE position_size

\* Position size in E4 units; strength is in hundredths.
calculate_position_size(symbol, strength, account) ==
  IF account = NoAccount THEN 0
  ELSE
    LET base_size == account.balance * RiskPercent     \* in hundredths of a unit
        sized == base_size * Abs(strength)             \* in E4
        position_size == IF sized > max_order_size * E4
                         THEN max_order_size * E4 ELSE sized
    IN  IF endswith_USD(symbol) \/ startswith_USD(symbol)
        THEN RoundHalfEven(position_size, LotUnits * (E4 \div 100)) * (E4 \div 100)
        ELSE position_size

\* --------------------------------------------------------- order lifecycle
\* Whether TradeStatus has a FAILED member in the implementation's models.
HasFailedStatus == impl = "bridge"

NewTrade(symbol, action, quantity) ==
  [symbol |-> symbol, action |-> action, quantity |-> quantity, status |-> "PENDING",
   price |-> "none", broker_order_id |-> "none", commission |-> "none"]

\* _simulate_order_execution: simulated market data is always available.
simulate_order_execution(t) ==
  [trade |-> [t EXCEPT !.status = "FILLED",
                       !.price = IF t.action = "BUY" THEN "ask" ELSE "bid",
                       !.broker_order_id = "SIM",
                       !.commission = "pip"],
   status |-> "filled", reason |-> "none", raised |-> FALSE, calls |-> 0]

\* Mutant: a rejected order is submitted to the broker a second time.
execute_real_order_resubmits(t, broker) ==
  IF broker = "success"
  THEN [trade |-> [t EXCEPT !.status = "FILLED", !.price = "broker",
                            !.broker_order_id = "broker", !.commission = "broker"],
        status |-> "filled", reason |-> "none", raised |-> FALSE, calls |-> 1]
  ELSE [trade |-> [t EXCEPT !.status = "REJECTED"],
        status |-> "rejected", reason |-> "broker error", raised |-> FALSE, calls |-> 2]

\* _execute_real_order on the broker's reply; calls counts the place_order
\* calls. In the direct implementation an exception of the broker client
\* reaches the handler, which sets TradeStatus.FAILED; in the bridge
\* implementation the client catches its own exceptions and returns no result.
execute_real_order(t, broker) ==
  IF broker = "success"
  THEN [trade |-> [t EXCEPT !.status = "FILLED", !.price = "broker",
                            !.broker_order_id = "broker", !.commission = "broker"],
        status |-> "filled", reason |-> "none", raised |-> FALSE, calls |-> 1]
  ELSE IF broker = "rejected"
  THEN [trade |-> [t EXCEPT !.status = "REJECTED"],
        status |-> "rejected", reason |-> "broker error", raised |-> FALSE, calls |-> 1]
  ELSE IF impl = "bridge"
  THEN [trade |-> [t EXCEPT !.status = "REJECTED"],
        status |-> "rejected", reason |-> "No result from broker",
        raised |-> FALSE, calls |-> 1]
  ELSE IF HasFailedStatus
  THEN [trade |-> [t EXCEPT !.status = "FAILED"],
        status |-> "error", reason |-> "exception", raised |-> FALSE, calls |-> 1]
  ELSE \* TradeStatus.FAILED does not exist: the handler itself raises
       [trade |-> t, status |-> "error", reason |-> "exception",
        raised |-> TRUE, calls |-> 1]

\* What the trade ledger stores for a trade posted by _record_trade: the
\* request carries no status, so the ledger's Trade keeps its default.
record_trade(t, ledger_reply) ==
  IF ledger_reply = "stored"
  THEN [status |-> "PENDING", symbol |-> t.symbol, action |-> t.action,
        quantity |-> t.quantity, price |-> t.price,
        broker_order_id |-> t.broker_order_id]
  ELSE NoRecord

\* _execute_order: the trade, the result, whether the trade was posted to the
\* ledger and what the ledger stored, and whether the daily counter was
\* incremented.
execute_order(symbol, action, quantity, broker, ledger_reply) ==
  LET t == NewTrade(symbol, action, quantity)
      x == IF UseSimulation THEN simulate_order_execution(t)
           ELSE execute_real_order(t, broker)
  IN  [trade |-> x.trade, status |-> x.status, reason |-> x.reason,
       recorded |-> ~x.raised,
       ledger |-> IF x.raised THEN NoRecord ELSE record_trade(x.trade, ledger_reply),
       counted |-> ~x.raised,
       calls |-> x.calls]

\* ------------------------------------------------------------ process_signal
ReasonDisabled == "Trading disabled or emergency stop active"
ReasonLimits == "Daily limits exceeded"
ReasonWeak == "Signal strength too weak"
ReasonSize == "Position size calculation failed"

\* Mutant: the first gate written as "not (enabled or stopped)".
trading_gate_closed_wrong_negation == ~(trading_enabled \/ emergency_stop)

\* The first gate of process_signal.
trading_gate_closed == ~trading_enabled \/ emergency_stop

\* Mutant: the strength gate with a threshold of 0.6.
strength_too_weak_lower_threshold(strength) == Abs(strength) < MinExecutionStrength - 10

\* The third gate of process_signal.
strength_too_weak(strength) == Abs(strength) < MinExecutionStrength

\* Mutant: the strength gate is evaluated before the daily-limit gate.
first_failing_gate_strength_first(limits_ok, strength, size) ==
  IF trading_gate_closed THEN ReasonDisabled
  ELSE IF strength_too_weak(strength) THEN ReasonWeak
  ELSE IF ~limits_ok THEN ReasonLimits
  ELSE IF size <= 0 THEN ReasonSize
  ELSE "none"

\* The gates of process_signal in the order the code evaluates them: the
\* reason of the first one that fails, or "none".
first_failing_gate(limits_ok, strength, size) ==
  IF trading_gate_closed THEN ReasonDisabled
  ELSE IF ~limits_ok THEN ReasonLimits
  ELSE IF strength_too_weak(strength) THEN ReasonWeak
  ELSE IF size <= 0 THEN ReasonSize
  ELSE "none"

\* Mutant: an operation without its exception handler.
catch_exception_missing(status) == status

\* The except clause of a public operation: an exception that reaches it
\* becomes an error result.
catch_exception(status) == IF status = "raised" THEN "error" ELSE status

\* Everything process_signal decides for one signal and one set of replies
\* of its collaborators: the risk state it leaves and what it returns.
signal_outcome(symbol, action, strength, account_reply, broker, ledger_reply) ==
  LET unchanged == [daily_pnl |-> daily_pnl,
                    daily_trades_count |-> daily_trades_count,
                    last_reset_date |-> last_reset_date,
                    trading_enabled |-> trading_enabled]
      lim == check_daily_limits
      checked == [daily_pnl |-> lim.daily_pnl,
                  daily_trades_count |-> lim.daily_trades_count,
                  last_reset_date |-> lim.last_reset_date,
                  trading_enabled |-> lim.trading_enabled]
      size == calculate_position_size(symbol, strength, get_account_info(account_reply))
      x == execute_order(symbol, action, size, broker, ledger_reply)
      gate == first_failing_gate(lim.ok, strength, size)
      rejected(r, sent) ==
        [risk |-> r, status |-> "rejected", reason |-> gate,
         trade |-> NoTrade, recorded |-> FALSE, ledger |-> NoRecord,
         calls |-> 0, alerts |-> sent]
  IN  IF gate = ReasonDisabled
        THEN rejected(unchanged, <<>>)
      ELSE IF gate = ReasonLimits
        THEN rejected(checked, <<"Daily Loss Limit Exceeded">>)
      ELSE IF gate = ReasonWeak
        THEN rejected(checked, <<>>)
      ELSE IF gate = ReasonSize
        THEN rejected(checked, <<>>)
      ELSE IF action \notin Actions
        THEN \* TradeAction(signal_data['action']) raises ValueError
             [risk |-> checked, status |-> catch_exception("raised"),
              reason |-> "exception", trade |-> NoTrade, recorded |-> FALSE,
              ledger |-> NoRecord, calls |-> 0, alerts |-> <<>>]
      ELSE [risk |-> [checked EXCEPT !.daily_trades_count =
                        IF x.counted THEN @ + 1 ELSE @],
            status |-> x.status, reason |-> x.reason,
            trade |-> x.trade, recorded |-> x.recorded, ledger |-> x.ledger,
            calls |-> x.calls, alerts |-> <<>>]

\* The collaborators process_signal consults depend on how far the signal
\* gets: the account is queried only when the position is sized from a real
\* account, the broker only when a real order is placed, the ledger only
\* when an order was executed.
NoReply == [kind |-> "none"]

ReachesSizing(strength) ==
  /\ ~trading_gate_closed
  /\ check_daily_limits.ok
  /\ ~strength_too_weak(strength)

\* A signal rejected before sizing is rejected whatever its symbol and action
\* are: one of each stands for all of them.
SizedSymbols(strength) ==
  IF ReachesSizing(strength) THEN Symbols ELSE {<<"EUR", "USD">>}

SizedActions(strength) ==
  IF ReachesSizing(strength) THEN SignalActions ELSE {"BUY"}

AccountQueries(strength) ==
  IF ReachesSizing(strength) /\ ~UseSimulation THEN AccountReplies ELSE {NoReply}

ReachesOrder(symbol, action, strength, account_reply) ==
  /\ ReachesSizing(strength)
  /\ action \in Actions
  /\ calculate_position_size(symbol, strength, get_account_info(account_reply)) > 0

BrokerQueries(symbol, action, strength, account_reply) ==
  IF ReachesOrder(symbol, action, strength, account_reply) /\ ~UseSimulation
  THEN BrokerReplies ELSE {"success"}

LedgerQueries(symbol, action, strength, account_reply) ==
  IF ReachesOrder(symbol, action, strength, account_reply)
  THEN LedgerReplies ELSE {"stored"}

\* What one call of process_signal assigns.
process_signal_call(symbol, action, strength, account_reply, broker, ledger_reply) ==
  \E o \in {signal_outcome(symbol, action, strength, account_reply,
                           broker, ledger_reply)} :
        /\ o.risk.daily_trades_count <= MaxTrades
        /\ trading_enabled' = o.risk.trading_enabled
        /\ daily_pnl' = o.risk.daily_pnl
        /\ daily_trades_count' = o.risk.daily_trades_count
        /\ last_reset_date' = o.risk.last_reset_date
        /\ result' = Result("process_signal", o.status, o.reason)
        /\ trade' = o.trade
        /\ recorded' = o.recorded
        /\ ledger' = o.ledger
        /\ place_order_calls' = o.calls
        /\ signal' = [kind |-> "signal", strength |-> strength]
        /\ alerts' = o.alerts
        /\ open_deal' = IF o.trade.status = "FILLED" THEN TRUE ELSE open_deal

process_signal ==
  /\ phase = "running"
  /\ \E strength \in Strengths :
     \E symbol \in SizedSymbols(strength), action \in SizedActions(strength) :
     \E account_reply \in AccountQueries(strength) :
     \E broker \in BrokerQueries(symbol, action, strength, account_reply) :
     \E ledger_reply \in LedgerQueries(symbol, action, strength, account_reply) :
        process_signal_call(symbol, action, strength, account_reply, broker, ledger_reply)
  /\ UNCHANGED <<others, processor, config, phase, mt5_connected, emergency_stop, today, realized_today>>

\* ------------------------------------------------------------ control methods
NoOrder == /\ trade' = NoTrade
           /\ recorded' = FALSE
           /\ signal' = NoSignal
           /\ ledger' = NoRecord
           /\ place_order_calls' = 0

\* Mutant: enable_trading without its emergency-stop check.
enable_never_blocked == FALSE

\* The refusal check both enable_trading implementations start with.
enable_blocked == emergency_stop

\* enable_trading of the direct implementation.
enable_trading ==
  /\ phase = "running"
  /\ impl = "direct"
  /\ LET lim == check_daily_limits
     IN  IF enable_blocked
         THEN /\ result' = Result("enable_trading", "failed",
                                  "Emergency stop is active. Clear emergency stop first.")
              /\ alerts' = <<>>
              /\ UNCHANGED risk
         ELSE /\ daily_pnl' = lim.daily_pnl
              /\ daily_trades_count' = lim.daily_trades_count
              /\ last_reset_date' = lim.last_reset_date
              /\ trading_enabled' = IF lim.ok THEN TRUE ELSE lim.trading_enabled
              /\ result' = IF lim.ok
                           THEN Result("enable_trading", "success", "none")
                           ELSE Result("enable_trading", "failed", ReasonLimits)
              /\ alerts' = IF lim.ok THEN <<"Trading Enabled">>
                           ELSE <<"Daily Loss Limit Exceeded">>
              /\ UNCHANGED emergency_stop
  /\ NoOrder
  /\ UNCHANGED <<others, processor, config, phase, mt5_connected, today, broker_side>>

\* enable_trading of the bridge implementation: no daily-limit check.
enable_trading_bridge ==
  /\ phase = "running"
  /\ impl = "bridge"
  /\ IF enable_blocked
     THEN /\ result' = Result("enable_trading", "failed", "Emergency stop is active")
          /\ UNCHANGED trading_enabled
     ELSE /\ result' = Result("enable_trading", "success", "none")
          /\ trading_enabled' = TRUE
  /\ alerts' = <<>>
  /\ NoOrder
  /\ UNCHANGED <<others, processor, config, phase, mt5_connected, emergency_stop, daily_pnl,
                 daily_trades_count, last_reset_date, today, broker_side>>

disable_trading ==
  /\ phase = "running"
  /\ trading_enabled' = FALSE
  /\ result' = Result("disable_trading", "success", "none")
  /\ alerts' = IF impl = "direct" THEN <<"Trading Disabled">> ELSE <<>>
  /\ NoOrder
  /\ UNCHANGED <<others, processor, config, phase, mt5_connected, emergency_stop, daily_pnl,
                 daily_trades_count, last_reset_date, today, broker_side>>

\* What mt5_client.close_all_positions can do: raise, or close the open deal
\* and realize its P&L.
CloseReplies == {"raise", "closed"}

\* emergency_stop_trading of the direct implementation.
\* What one call of emergency_stop_trading assigns.
emergency_stop_trading_call ==
  /\ emergency_stop' = TRUE
  /\ trading_enabled' = FALSE
  /\ \E reply \in CloseReplies, amount \in PnlAmounts :
       IF ~dry_run_mode /\ open_deal /\ reply = "closed"
          /\ Abs(realized_today + amount) <= MaxRealized
       THEN /\ open_deal' = FALSE
            /\ realized_today' = realized_today + amount
       ELSE UNCHANGED broker_side
  /\ result' = Result("emergency_stop_trading", "success", "none")
  /\ alerts' = <<"EMERGENCY STOP ACTIVATED">>
  /\ NoOrder
  /\ UNCHANGED <<daily_pnl, daily_trades_count, last_reset_date>>

emergency_stop_trading ==
  /\ phase = "running"
  /\ impl = "direct"
  /\ emergency_stop_trading_call
  /\ UNCHANGED <<others, processor, config, phase, mt5_connected, today>>

\* activate_emergency_stop of the bridge implementation.
activate_emergency_stop ==
  /\ phase = "running"
  /\ impl = "bridge"
  /\ emergency_stop' = TRUE
  /\ trading_enabled' = FALSE
  /\ result' = Result("emergency_stop_trading", "success", "none")
  /\ alerts' = <<"EMERGENCY STOP">>
  /\ NoOrder
  /\ UNCHANGED <<others, processor, config, phase, mt5_connected, daily_pnl,
                 daily_trades_count, last_reset_date, today, broker_side>>

\* Mutant: clearing the emergency stop also re-enables trading.
clear_emergency_stop_reenables ==
  /\ phase = "running"
  /\ emergency_stop' = FALSE
  /\ trading_enabled' = TRUE
  /\ result' = Result("clear_emergency_stop", "success", "none")
  /\ alerts' = IF impl = "direct" THEN <<"Emergency Stop Cleared">> ELSE <<>>
  /\ NoOrder
  /\ UNCHANGED <<others, processor, config, phase, mt5_connected, daily_pnl,
                 daily_trades_count, last_reset_date, today, broker_side>>

\* clear_emergency_stop (direct) and deactivate_emergency_stop (bridge).
clear_emergency_stop ==
  /\ phase = "running"
  /\ emergency_stop' = FALSE
  /\ result' = Result("clear_emergency_stop", "success", "none")
  /\ alerts' = IF impl = "direct" THEN <<"Emergency Stop Cleared">> ELSE <<>>
  /\ NoOrder
  /\ UNCHANGED <<others, processor, config, phase, mt5_connected, trading_enabled, daily_pnl,
                 daily_trades_count, last_reset_date, today, broker_side>>

\* Mutant: the explicit reset re-enables trading as the reset on a new date
\* does.
reset_daily_limits_reenables ==
  /\ phase = "running"
  /\ impl = "direct"
  /\ daily_pnl' = 0
  /\ daily_trades_count' = 0
  /\ last_reset_date' = today
  /\ trading_enabled' = IF ~emergency_stop THEN ~dry_run_mode ELSE trading_enabled
  /\ result' = Result("reset_daily_limits", "success", "none")
  /\ alerts' = <<>>
  /\ NoOrder
  /\ UNCHANGED <<others, processor, config, phase, mt5_connected, emergency_stop,
                 today, broker_side>>

\* reset_daily_limits exists in the direct implementation only.
reset_daily_limits ==
  /\ phase = "running"
  /\ impl = "direct"
  /\ daily_pnl' = 0
  /\ daily_trades_count' = 0
  /\ last_reset_date' = today
  /\ result' = Result("reset_daily_limits", "success", "none")
  /\ alerts' = <<>>
  /\ NoOrder
  /\ UNCHANGED <<others, processor, config, phase, mt5_connected, trading_enabled, emergency_stop,
                 today, broker_side>>

\* ------------------------------------------------------------------ start-up
\* initialize of the direct implementation; broker_ok is whether
\* mt5_client.initialize returned rather than raised. initialize logs the
\* exception and raises it again.
initialize ==
  /\ phase = "constructed"
  /\ impl = "direct"
  /\ \E broker_ok \in BOOLEAN :
       IF ~dry_run_mode /\ ~broker_ok
       THEN /\ phase' = "failed"
            /\ result' = Result("initialize", "raised", "exception")
            /\ UNCHANGED risk
       ELSE LET r == check_and_reset_daily_limits
            IN  /\ phase' = "running"
                /\ result' = Result("initialize", "success", "none")
                /\ daily_pnl' = r.daily_pnl
                /\ daily_trades_count' = r.daily_trades_count
                /\ last_reset_date' = r.last_reset_date
                /\ trading_enabled' = r.trading_enabled
                /\ UNCHANGED emergency_stop
  /\ alerts' = <<>>
  /\ NoOrder
  /\ UNCHANGED <<others, processor, config, mt5_connected, today, broker_side>>

\* The trading flag after the connection step of the bridge's initialize.
bridge_connect_step(connected) ==
  IF ~dry_run_mode /\ bvm_mt5_enabled
  THEN (IF connected THEN trading_enabled ELSE FALSE)
  ELSE IF ~dry_run_mode /\ ~bvm_mt5_enabled THEN FALSE
  ELSE trading_enabled

\* initialize of the bridge implementation; connected is what
\* mt5_client.connect returned.
initialize_bridge ==
  /\ phase = "constructed"
  /\ impl = "bridge"
  /\ \E connected \in BOOLEAN :
       LET was == bridge_connect_step(connected)
           due == today > last_reset_date
       IN  /\ mt5_connected' = (~dry_run_mode /\ bvm_mt5_enabled /\ connected)
           /\ trading_enabled' = IF due /\ ~emergency_stop THEN ~dry_run_mode ELSE was
           /\ daily_pnl' = check_and_reset_daily_limits.daily_pnl
           /\ daily_trades_count' = check_and_reset_daily_limits.daily_trades_count
           /\ last_reset_date' = check_and_reset_daily_limits.last_reset_date
  /\ phase' = "running"
  /\ result' = Result("initialize", "success", "none")
  /\ alerts' = <<>>
  /\ NoOrder
  /\ UNCHANGED <<others, processor, config, emergency_stop, today, broker_side>>

\* ---------------------------------------------------------------- environment
\* Midnight UTC passes.
Midnight ==
  /\ service = "execution_worker"
  /\ today < MaxDay
  /\ today' = today + 1
  /\ realized_today' = 0
  /\ UNCHANGED <<others, processor, config, phase, mt5_connected, risk, outcome, open_deal>>

\* The broker closes the open deal: its profit or loss is realized.
deal_closed ==
  /\ open_deal
  /\ \E amount \in PnlAmounts :
       /\ Abs(realized_today + amount) <= MaxRealized
       /\ realized_today' = realized_today + amount
  /\ open_deal' = FALSE
  /\ UNCHANGED <<others, processor, config, phase, mt5_connected, risk, today, outcome>>

\* ------------------------------------------------------------- specification
\* The components a behaviour is not about, as they are constructed.
OthersIdle ==
  /\ signals = <<>>
  /\ weights = <<>>
  /\ combined = NoCombined
  /\ calculated = NoCalculation
  /\ position = NoSize
  /\ utc_clock = 0
  /\ sim_orders = <<>>
  /\ inflight = [t \in Tasks |-> NotRunning]
  /\ attempts = 0
  /\ stop_breached = FALSE
  /\ accepted = 0
  /\ columns = BarColumns
  /\ bot_reply = NoBotReply
  /\ local_time = [day |-> 0, weekday |-> 0, hour |-> 0, minute |-> 0]
  /\ analysis_date = NoAnalysis
  /\ cycle = NoCycle

\* The state after ExecutionService.__init__ with the limits read from the
\* settings.
Constructed(loss_limits, order_sizes) ==
  /\ impl \in Impls
  /\ dry_run_mode \in BOOLEAN
  /\ bvm_mt5_enabled \in (IF impl = "bridge" THEN BOOLEAN ELSE {FALSE})
  /\ daily_loss_limit \in loss_limits
  /\ max_order_size \in order_sizes
  /\ phase = "constructed"
  /\ mt5_connected = FALSE
  /\ trading_enabled = ~dry_run_mode
  /\ emergency_stop = FALSE
  /\ daily_pnl = 0
  /\ daily_trades_count = 0
  /\ today = 0
  /\ last_reset_date = 0
  /\ result = NoResult
  /\ trade = NoTrade
  /\ recorded = FALSE
  /\ alerts = <<>>
  /\ signal = NoSignal
  /\ ledger = NoRecord
  /\ place_order_calls = 0
  /\ realized_today = 0
  /\ open_deal = FALSE
  /\ service = "execution_worker"
  /\ signal_history = <<>>
  /\ min_confidence = DefaultMinConfidence
  /\ min_strength = DefaultMinStrength
  /\ cooldown_minutes = DefaultCooldownMinutes
  /\ now = 0
  /\ pm_result = NoPmResult
  /\ OthersIdle

Init == Constructed(DailyLossLimits, MaxOrderSizes)

Next ==
  \/ initialize
  \/ initialize_bridge
  \/ process_signal
  \/ enable_trading
  \/ enable_trading_bridge
  \/ disable_trading
  \/ emergency_stop_trading
  \/ activate_emergency_stop
  \/ clear_emergency_stop
  \/ reset_daily_limits
  \/ Midnight
  \/ deal_closed

Spec == Init /\ [][Next]_vars

\* The state in which a behaviour about one component starts: the service the
\* component runs in, the phase of its execution service, and the two
\* settings its functions read; everything else as constructed.
ComponentInit(i, svc, ph, dry, cap) ==
  /\ impl = i
  /\ dry_run_mode = dry
  /\ bvm_mt5_enabled = (i = "bridge")
  /\ daily_loss_limit = 1000
  /\ max_order_size = cap
  /\ phase = ph
  /\ mt5_connected = (i = "bridge" /\ ~dry)
  /\ trading_enabled = ~dry
  /\ emergency_stop = FALSE
  /\ daily_pnl = 0
  /\ daily_trades_count = 0
  /\ today = 0
  /\ last_reset_date = 0
  /\ result = NoResult
  /\ trade = NoTrade
  /\ recorded = FALSE
  /\ alerts = <<>>
  /\ signal = NoSignal
  /\ ledger = NoRecord
  /\ place_order_calls = 0
  /\ realized_today = 0
  /\ open_deal = FALSE
  /\ service = svc
  /\ signal_history = <<>>
  /\ min_confidence = DefaultMinConfidence
  /\ min_strength = DefaultMinStrength
  /\ cooldown_minutes = DefaultCooldownMinutes
  /\ now = 0
  /\ pm_result = NoPmResult
  /\ OthersIdle

\* ============================================================ signal filter
\* What get_combined_signal can hand to process_market_data: a combined
\* signal, no signal, or an exception.
CombinedReplies ==
  [kind : {"signal"}, action : Actions,
   strength : CombinedStrengths, confidence : CombinedConfidences]
  \cup {[kind |-> "none"], [kind |-> "raise"]}

passes_filters(sig) ==
  sig.confidence >= min_confidence /\ sig.strength >= min_strength

\* The loop of _is_in_cooldown from entry i of the history backwards.
RECURSIVE cooldown_scan(_, _, _, _, _)
cooldown_scan(history, i, cutoff_time, symbol, action) ==
  IF i = 0 THEN FALSE
  ELSE IF history[i].generated_at < cutoff_time THEN FALSE
  ELSE IF history[i].symbol = symbol /\ history[i].action = action THEN TRUE
  ELSE cooldown_scan(history, i - 1, cutoff_time, symbol, action)

\* Mutant: the cooldown is kept per symbol, whatever the action.
is_in_cooldown_any_action(symbol, action) ==
  \E i \in 1..Len(signal_history) :
     /\ signal_history[i].generated_at >= now - cooldown_minutes
     /\ signal_history[i].symbol = symbol

is_in_cooldown(symbol, action) ==
  cooldown_scan(signal_history, Len(signal_history), now - cooldown_minutes,
                symbol, action)

\* Mutant: the trim keeps the oldest 1000 entries.
keep_last_keeps_oldest(history) ==
  IF Len(history) > HistoryCap
  THEN SubSeq(history, 1, HistoryCap)
  ELSE history

\* "Clean old signals (keep last 1000)".
keep_last(history) ==
  IF Len(history) > HistoryCap
  THEN SubSeq(history, Len(history) - HistoryCap + 1, Len(history))
  ELSE history

PmResult(returned, why, symbol, reply) ==
  [returned |-> returned, why |-> why, symbol |-> symbol, at |-> now,
   action |-> IF reply.kind = "signal" THEN reply.action ELSE "none",
   strength |-> IF reply.kind = "signal" THEN reply.strength ELSE 0,
   confidence |-> IF reply.kind = "signal" THEN reply.confidence ELSE 0]

process_market_data ==
  /\ service = "market_worker"
  /\ \E symbol \in MarketSymbols, reply \in CombinedReplies :
       IF reply.kind = "raise"
       THEN /\ pm_result' = PmResult("none", "error", symbol, reply)
            /\ UNCHANGED <<signal_history, accepted>>
       ELSE IF reply.kind = "none"
       THEN /\ pm_result' = PmResult("none", "no signal", symbol, reply)
            /\ UNCHANGED <<signal_history, accepted>>
       ELSE IF ~passes_filters(reply)
       THEN /\ pm_result' = PmResult("none", "filtered", symbol, reply)
            /\ UNCHANGED <<signal_history, accepted>>
       ELSE IF is_in_cooldown(symbol, reply.action)
       THEN /\ pm_result' = PmResult("none", "cooldown", symbol, reply)
            /\ UNCHANGED <<signal_history, accepted>>
       ELSE /\ accepted < MaxHistory
            /\ accepted' = accepted + 1
            /\ pm_result' = PmResult("signal", "accepted", symbol, reply)
            /\ signal_history' =
                 keep_last(Append(signal_history,
                                  [symbol |-> symbol, action |-> reply.action,
                                   generated_at |-> now]))
  /\ UNCHANGED <<components, columns, bot_reply, eod, config, phase, mt5_connected, risk,
                 today, outcome, broker_side, service, filters, now>>

set_filters ==
  /\ service = "market_worker"
  /\ \E f \in FilterSettings :
       /\ min_confidence' = f.min_confidence
       /\ min_strength' = f.min_strength
       /\ cooldown_minutes' = f.cooldown_minutes
  /\ UNCHANGED <<others, config, phase, mt5_connected, risk, today, outcome, broker_side,
                 service, signal_history, now, pm_result>>

clear_history ==
  /\ service = "market_worker"
  /\ signal_history' = <<>>
  /\ accepted' = 0
  /\ UNCHANGED <<components, columns, bot_reply, eod, config, phase, mt5_connected, risk,
                 today, outcome, broker_side, service, filters, now, pm_result>>

\* Time passes.
Tick ==
  /\ service = "market_worker"
  /\ \E d \in Ticks :
       /\ now + d <= MaxMinute
       /\ now' = now + d
  /\ UNCHANGED <<others, config, phase, mt5_connected, risk, today, outcome, broker_side,
                 service, signal_history, filters, pm_result>>

\* The wall clock is set back: generated_at and the cutoff of _is_in_cooldown
\* are both readings of datetime.utcnow.
utcnow_set_back ==
  /\ service = "market_worker"
  /\ \E reading \in EarlierReadings :
       /\ reading < now
       /\ now' = reading
  /\ UNCHANGED <<others, config, phase, mt5_connected, risk, today, outcome, broker_side,
                 service, signal_history, filters, pm_result>>

\* The market worker's process, holding the given history: no execution
\* service runs in it.
MarketWorker(history) ==
  /\ impl = "direct"
  /\ dry_run_mode = TRUE
  /\ bvm_mt5_enabled = FALSE
  /\ daily_loss_limit = 1000
  /\ max_order_size = 10000
  /\ phase = "none"
  /\ mt5_connected = FALSE
  /\ trading_enabled = FALSE
  /\ emergency_stop = FALSE
  /\ daily_pnl = 0
  /\ daily_trades_count = 0
  /\ today = 0
  /\ last_reset_date = 0
  /\ result = NoResult
  /\ trade = NoTrade
  /\ recorded = FALSE
  /\ alerts = <<>>
  /\ signal = NoSignal
  /\ ledger = NoRecord
  /\ place_order_calls = 0
  /\ realized_today = 0
  /\ open_deal = FALSE
  /\ service = "market_worker"
  /\ signal_history = history
  /\ min_confidence = DefaultMinConfidence
  /\ min_strength = DefaultMinStrength
  /\ cooldown_minutes = DefaultCooldownMinutes
  /\ now = 0
  /\ pm_result = NoPmResult
  /\ OthersIdle

InitSignals == MarketWorker(<<>>)

NextSignals ==
  \/ process_market_data
  \/ set_filters
  \/ clear_history
  \/ Tick

SpecSignals == InitSignals /\ [][NextSignals]_vars

\* The signal processor under a wall clock that can also be set back.
NextWallClock ==
  \/ process_market_data
  \/ clear_history
  \/ Tick
  \/ utcnow_set_back

SpecWallClock == InitSignals /\ [][NextWallClock]_vars

\* The history after one signal for EURUSD BUY was accepted every 16 minutes
\* until a minute before the clock starts, one short of the cap.
LongHistory ==
  [i \in 1..(HistoryCap - 1) |->
     [symbol |-> "EURUSD", action |-> "BUY",
      generated_at |-> 0 - (DefaultCooldownMinutes + 1) * (HistoryCap - i) + DefaultCooldownMinutes]]

\* The signal filter with a history that reaches the cap.
InitHistory == MarketWorker(LongHistory)

NextHistory == process_market_data

SpecHistory == InitHistory /\ [][NextHistory]_vars

\* Both workers: a behaviour is about one of them.
SpecBoundary == (Init \/ InitSignals) /\ [][Next \/ NextSignals]_vars

\* ========================================================== signal combiner
\* SignalGenerator of libs/signals/base.py. Weights are in tenths, strength
\* and confidence in hundredths; a combined strength or confidence is the
\* quotient of its numerator (strength_sum, confidence_sum) by total_weight.
RECURSIVE SeqSum(_)
SeqSum(q) == IF q = <<>> THEN 0 ELSE Head(q) + SeqSum(Tail(q))

\* self.weights.get(signal_type, 1.0)
weight_of(signal_type) ==
  IF signal_type \in DOMAIN weights THEN weights[signal_type] ELSE DefaultWeight

\* generate_signals over the first i registered generators: the signals of
\* those whose calculate returned one, in registration order. Each carries
\* the name of its generator as signal_type; registered remembers the weight
\* that generator was added with.
RECURSIVE generate_signals(_, _)
generate_signals(replies, i) ==
  IF i = 0 THEN <<>>
  ELSE LET earlier == generate_signals(replies, i - 1)
       IN  IF replies[i].kind = "signal"
           THEN Append(earlier,
                       [signal_type |-> signals[i].name,
                        registered |-> signals[i].weight,
                        action |-> replies[i].action,
                        strength |-> replies[i].strength,
                        confidence |-> replies[i].confidence])
           ELSE earlier

\* The body of get_combined_signal on the individual signals.
combine(individual) ==
  LET n == Len(individual)
      weight == [i \in 1..n |-> weight_of(individual[i].signal_type)]
      total_weight == SeqSum(weight)
      weighted_strength == SeqSum([i \in 1..n |-> individual[i].strength * weight[i]])
      weighted_confidence == SeqSum([i \in 1..n |-> individual[i].confidence * weight[i]])
      buy_signals == SeqSum([i \in 1..n |->
                               IF individual[i].action = "BUY" THEN weight[i] ELSE 0])
      sell_signals == SeqSum([i \in 1..n |->
                                IF individual[i].action = "BUY" THEN 0 ELSE weight[i]])
      votes == [i \in 1..n |->
                  [signal_type |-> individual[i].signal_type,
                   registered |-> individual[i].registered,
                   vote |-> weight[i],
                   action |-> individual[i].action,
                   strength |-> individual[i].strength,
                   confidence |-> individual[i].confidence]]
      answer(kind, action) ==
        [kind |-> kind, action |-> action,
         strength_sum |-> weighted_strength,
         confidence_sum |-> weighted_confidence,
         total_weight |-> total_weight,
         buy_weight |-> buy_signals, sell_weight |-> sell_signals,
         contributing |-> votes]
  IN  IF n = 0 THEN answer("none", "none")
      ELSE IF total_weight = 0 THEN answer("none", "none")
      ELSE IF buy_signals > sell_signals THEN answer("signal", "BUY")
      ELSE IF sell_signals > buy_signals THEN answer("signal", "SELL")
      ELSE answer("none", "none")

add_signal ==
  /\ Len(signals) < MaxGenerators
  /\ \E name \in GeneratorNames, weight \in Weights :
       /\ signals' = Append(signals, [name |-> name, weight |-> weight])
       /\ weights' = [k \in DOMAIN weights \cup {name} |->
                        IF k = name THEN weight ELSE weights[k]]
  /\ UNCHANGED <<config, phase, mt5_connected, risk, today, outcome, broker_side,
                 auxiliary, processor, combined, calculated, position, simulation, concurrent>>

RECURSIVE without_name(_, _)
without_name(q, name) ==
  IF q = <<>> THEN <<>>
  ELSE IF Head(q).name = name THEN without_name(Tail(q), name)
  ELSE <<Head(q)>> \o without_name(Tail(q), name)

remove_signal ==
  /\ \E name \in GeneratorNames :
       /\ signals' = without_name(signals, name)
       /\ weights' = [k \in DOMAIN weights \ {name} |-> weights[k]]
  /\ UNCHANGED <<config, phase, mt5_connected, risk, today, outcome, broker_side,
                 auxiliary, processor, combined, calculated, position, simulation, concurrent>>

get_combined_signal ==
  /\ \E replies \in [1..Len(signals) -> CalculateReplies] :
       combined' = combine(generate_signals(replies, Len(signals)))
  /\ UNCHANGED <<config, phase, mt5_connected, risk, today, outcome, broker_side,
                 auxiliary, processor, signals, weights, calculated, position, simulation,
                 concurrent>>

InitCombiner == ComponentInit("direct", "market_worker", "none", TRUE, 10000)

NextCombiner ==
  \/ add_signal
  \/ remove_signal
  \/ get_combined_signal

SpecCombiner == InitCombiner /\ [][NextCombiner]_vars

\* ========================================================= signal generators
\* The four generators of libs/signals/technical.py, each on what its
\* calculate reads of the series: whether the series has the required
\* periods, whether an indicator value is NaN, and the indicator values.
\* A computed strength is a record: nan says it is NaN, value is in
\* hundredths otherwise.
Number(v) == [nan |-> FALSE, value |-> v]
NaN == [nan |-> TRUE, value |-> 0]

Min(a, b) == IF a < b THEN a ELSE b

\* Python's min(x, 1.0) on a float x: NaN compares false with everything, so
\* min returns its first argument when that is NaN.
min_with_one(x) == IF x.nan THEN x ELSE Number(Min(x.value, 100))

\* The fields of SignalData that have no default.
RequiredFields == {"symbol", "signal_type", "strength", "action", "confidence"}

\* SignalData(**fields): the model validates its fields on construction.
SignalData(fields) ==
  IF RequiredFields \subseteq DOMAIN fields
  THEN [kind |-> "signal", fired |-> TRUE, action |-> fields.action,
        strength |-> fields.strength, confidence |-> fields.confidence]
  ELSE [kind |-> "raise", fired |-> TRUE, action |-> fields.action,
        strength |-> fields.strength, confidence |-> fields.confidence]

NotFired ==
  [kind |-> "none", fired |-> FALSE, action |-> "none",
   strength |-> Number(0), confidence |-> 0]

MovingAverageSignal_calculate(series) ==
  IF ~series.enough \/ series.nan THEN NotFired
  ELSE IF series.prev_fast <= series.prev_slow /\ series.current_fast > series.current_slow
  THEN LET strength == Min(((series.current_fast - series.current_slow) * 100)
                             \div series.current_slow, 100)
       IN  SignalData([signal_type |-> "MA_CROSSOVER", strength |-> Number(Abs(strength)),
                       action |-> "BUY", confidence |-> 70, metadata |-> "bullish"])
  ELSE IF series.prev_fast >= series.prev_slow /\ series.current_fast < series.current_slow
  THEN LET strength == Min(((series.current_slow - series.current_fast) * 100)
                             \div series.current_slow, 100)
       IN  SignalData([signal_type |-> "MA_CROSSOVER", strength |-> Number(Abs(strength)),
                       action |-> "SELL", confidence |-> 70, metadata |-> "bearish"])
  ELSE NotFired

RSISignal_calculate(series) ==
  IF ~series.enough \/ series.nan THEN NotFired
  ELSE IF series.rsi < RsiOversold
  THEN LET strength == ((RsiOversold - series.rsi) * 100) \div RsiOversold
       IN  SignalData([signal_type |-> "RSI_SIGNAL", strength |-> Number(Min(strength, 100)),
                       action |-> "BUY", confidence |-> 60, metadata |-> "oversold"])
  ELSE IF series.rsi > RsiOverbought
  THEN LET strength == ((series.rsi - RsiOverbought) * 100) \div (100 - RsiOverbought)
       IN  SignalData([signal_type |-> "RSI_SIGNAL", strength |-> Number(Min(strength, 100)),
                       action |-> "SELL", confidence |-> 60, metadata |-> "overbought"])
  ELSE NotFired

macd_strength(series) ==
  IF series.macd # 0
  THEN Min((Abs(series.histogram) * 100) \div Abs(series.macd), 100)
  ELSE 50

MACDSignal_calculate(series) ==
  IF ~series.enough \/ series.nan THEN NotFired
  ELSE IF series.prev_histogram <= 0 /\ series.histogram > 0
  THEN SignalData([signal_type |-> "MACD_SIGNAL", strength |-> Number(macd_strength(series)),
                   action |-> "BUY", confidence |-> 65, metadata |-> "bullish"])
  ELSE IF series.prev_histogram >= 0 /\ series.histogram < 0
  THEN SignalData([signal_type |-> "MACD_SIGNAL", strength |-> Number(macd_strength(series)),
                   action |-> "SELL", confidence |-> 65, metadata |-> "bearish"])
  ELSE NotFired

\* The quotient of two floats, in hundredths, made non-negative by abs():
\* 0.0 / 0.0 is NaN and x / 0.0 is infinite (numpy floats do not raise).
abs_quotient(num, den) ==
  IF den = 0 THEN (IF num = 0 THEN NaN ELSE Number(100 * 100))
  ELSE Number((Abs(num) * 100) \div Abs(den))

\* band is std * std_dev, the half-width of the Bollinger band.
BollingerBandsSignal_calculate(series) ==
  LET lower == series.sma - series.band
      upper == series.sma + series.band
  IN  IF ~series.enough \/ series.nan THEN NotFired
      ELSE IF series.price <= lower
      THEN SignalData([signal_type |-> "BOLLINGER_BANDS",
                       strength |-> min_with_one(abs_quotient(lower - series.price,
                                                              series.sma - lower)),
                       action |-> "BUY", confidence |-> 55, metadata |-> "lower_band_touch"])
      ELSE IF series.price >= upper
      THEN SignalData([signal_type |-> "BOLLINGER_BANDS",
                       strength |-> min_with_one(abs_quotient(series.price - upper,
                                                              upper - series.sma)),
                       action |-> "SELL", confidence |-> 55, metadata |-> "upper_band_touch"])
      ELSE NotFired

\* One turn of the loop of generate_signals: calculate is called, and its
\* signal is collected unless it returned none or raised.
Calculation(generator, series, returned) ==
  [kind |-> returned.kind, generator |-> generator, series |-> series,
   fired |-> returned.fired, action |-> returned.action,
   strength |-> returned.strength, confidence |-> returned.confidence,
   collected |-> returned.kind = "signal"]

MovingAverageSeries ==
  [enough : BOOLEAN, nan : BOOLEAN, prev_fast : Means, prev_slow : Means,
   current_fast : Means, current_slow : Means]

RSISeries == [enough : BOOLEAN, nan : BOOLEAN, rsi : RsiValues]

MACDSeries ==
  [enough : BOOLEAN, nan : BOOLEAN, prev_histogram : Histograms,
   histogram : Histograms, macd : MacdValues]

BollingerSeries ==
  [enough : BOOLEAN, nan : BOOLEAN, price : Prices, sma : Prices, band : Bands]

\* The columns MovingAverageSignal.calculate assigns in the DataFrame it is
\* given, once the series is long enough.
MovingAverageSignal_assigns(series) ==
  IF series.enough THEN {"ma_fast", "ma_slow"} ELSE {}

generate_MovingAverage ==
  /\ \E series \in MovingAverageSeries :
       /\ calculated' = Calculation("MA_CROSSOVER", series,
                                    MovingAverageSignal_calculate(series))
       /\ columns' = columns \cup MovingAverageSignal_assigns(series)
  /\ UNCHANGED <<config, phase, mt5_connected, risk, today, outcome, broker_side,
                 accepted, bot_reply, eod, processor, combiner, position, simulation,
                 concurrent>>

generate_RSI ==
  /\ \E series \in RSISeries :
       calculated' = Calculation("RSI_SIGNAL", series, RSISignal_calculate(series))
  /\ UNCHANGED <<config, phase, mt5_connected, risk, today, outcome, broker_side,
                 auxiliary, processor, combiner, position, simulation, concurrent>>

generate_MACD ==
  /\ \E series \in MACDSeries :
       calculated' = Calculation("MACD_SIGNAL", series, MACDSignal_calculate(series))
  /\ UNCHANGED <<config, phase, mt5_connected, risk, today, outcome, broker_side,
                 auxiliary, processor, combiner, position, simulation, concurrent>>

generate_BollingerBands ==
  /\ \E series \in BollingerSeries :
       calculated' = Calculation("BOLLINGER_BANDS", series,
                                 BollingerBandsSignal_calculate(series))
  /\ UNCHANGED <<config, phase, mt5_connected, risk, today, outcome, broker_side,
                 auxiliary, processor, combiner, position, simulation, concurrent>>

InitGenerators == ComponentInit("direct", "market_worker", "none", TRUE, 10000)

NextGenerators ==
  \/ generate_MovingAverage
  \/ generate_RSI
  \/ generate_MACD
  \/ generate_BollingerBands

SpecGenerators == InitGenerators /\ [][NextGenerators]_vars

\* ============================================================ position sizing
\* _calculate_position_size applied on its own: to a symbol, a strength and
\* what the account query answers.
SizingAccountReplies ==
  [kind : {"info"}, balance : SizingBalances] \cup [kind : {"none", "raise"}]

size_position ==
  /\ \E symbol \in Symbols, strength \in SizingStrengths,
        account_reply \in (IF UseSimulation THEN {NoReply} ELSE SizingAccountReplies) :
       LET account == get_account_info(account_reply)
       IN  position' = [kind |-> "size", symbol |-> symbol, strength |-> strength,
                        account |-> account,
                        size |-> calculate_position_size(symbol, strength, account)]
  /\ UNCHANGED <<config, phase, mt5_connected, risk, today, outcome, broker_side,
                 auxiliary, processor, combiner, calculated, simulation, concurrent>>

InitSizing ==
  \E dry \in BOOLEAN, cap \in MaxOrderSizes :
     ComponentInit("direct", "execution_worker", "running", dry, cap)

NextSizing == size_position

SpecSizing == InitSizing /\ [][NextSizing]_vars

\* ============================================================== dry-run mode
\* process_signal in dry-run mode, for signals strong enough to be executed,
\* with what _calculate_position_size was applied to and returned when the
\* signal got that far.
process_strong_signal ==
  /\ phase = "running"
  /\ \E strength \in ExecutableStrengths, symbol \in Symbols, action \in Actions :
     \E account_reply \in AccountQueries(strength) :
     \E broker \in BrokerQueries(symbol, action, strength, account_reply) :
     \E ledger_reply \in LedgerQueries(symbol, action, strength, account_reply) :
       LET account == get_account_info(account_reply)
       IN  /\ process_signal_call(symbol, action, strength, account_reply, broker,
                                  ledger_reply)
           /\ position' =
                IF ReachesSizing(strength)
                THEN [kind |-> "size", symbol |-> symbol, strength |-> strength,
                      account |-> account,
                      size |-> calculate_position_size(symbol, strength, account)]
                ELSE [kind |-> "not sized", symbol |-> symbol, strength |-> strength]
  /\ UNCHANGED <<config, phase, mt5_connected, emergency_stop, today, realized_today,
                 auxiliary, processor, combiner, calculated, simulation, concurrent>>

InitDryRun == Constructed(DailyLossLimits, MaxOrderSizes) /\ dry_run_mode

NextDryRun ==
  \/ initialize
  \/ initialize_bridge
  \/ enable_trading
  \/ enable_trading_bridge
  \/ disable_trading
  \/ process_strong_signal
  \/ Midnight
  \/ deal_closed

SpecDryRun == InitDryRun /\ [][NextDryRun]_vars

\* ============================================================ /stop_trading
\* verify_api_token of libs/core/security.py: HTTPBearer refuses a request
\* without an Authorization header, the function one with another token.
verify_api_token(authorization) == authorization = "Bearer API_TOKEN"

\* POST /emergency_stop of the execution worker: the token check, then
\* execution_service.emergency_stop_trading(), a method the bridge
\* implementation does not have (the endpoint answers 500).
emergency_stop_endpoint(authorization) ==
  IF ~verify_api_token(authorization)
  THEN /\ result' = Result("emergency_stop", "refused", "Not authenticated")
       /\ alerts' = <<>>
       /\ NoOrder
       /\ UNCHANGED <<risk, broker_side>>
  ELSE IF impl = "direct"
  THEN emergency_stop_trading_call
  ELSE /\ result' = Result("emergency_stop", "error", "AttributeError")
       /\ alerts' = <<>>
       /\ NoOrder
       /\ UNCHANGED <<risk, broker_side>>

\* A client that sends a request to the endpoint.
post_emergency_stop ==
  /\ phase = "running"
  /\ \E authorization \in Authorizations : emergency_stop_endpoint(authorization)
  /\ UNCHANGED <<config, phase, mt5_connected, today, processor, components, accepted,
                 columns, bot_reply, eod>>

\* stop_trading_handler of the bot gateway: the post carries no headers and
\* its response is not looked at; only an exception of the post (the worker
\* cannot be reached) changes the reply.
stop_trading_handler ==
  /\ \E reachable \in BOOLEAN :
       IF reachable /\ phase = "running"
       THEN /\ emergency_stop_endpoint(NoAuthorization)
            /\ bot_reply' = [text |-> "EMERGENCY STOP ACTIVATED"]
       ELSE /\ bot_reply' = [text |-> "Error stopping trading"]
            /\ UNCHANGED <<risk, outcome, broker_side>>
  /\ UNCHANGED <<config, phase, mt5_connected, today, processor, components, accepted,
                 columns, eod>>

InitStop ==
  \E i \in Impls, ph \in {"constructed", "running"}, dry \in BOOLEAN :
     ComponentInit(i, "execution_worker", ph, dry, 10000)

NextStop ==
  \/ stop_trading_handler
  \/ post_emergency_stop
  \/ initialize
  \/ initialize_bridge
  \/ enable_trading
  \/ enable_trading_bridge
  \/ disable_trading
  \/ clear_emergency_stop
  \/ Midnight

SpecStop == InitStop /\ [][NextStop]_vars

\* ====================================================== end-of-day analysis
\* MarketService of new_project/apps/market_worker/market_service.py.
\* The local time a number of minutes after t.
later(t, minutes) ==
  LET total == t.hour * 60 + t.minute + minutes
      days == total \div (24 * 60)
  IN  [day |-> t.day + days, weekday |-> (t.weekday + days) % 7,
       hour |-> (total \div 60) % 24, minute |-> total % 60]

\* _should_run_eod_analysis.
should_run_eod_analysis(current_time) ==
  IF current_time.weekday >= 5 THEN FALSE
  ELSE IF analysis_date # NoAnalysis /\ analysis_date >= current_time.day THEN FALSE
  ELSE current_time.hour >= 16 /\ current_time.minute >= 30

\* start: the service enters its loop at some local time.
start ==
  /\ cycle = NoCycle
  /\ \E weekday \in Weekdays, hour \in Hours, minute \in StartMinutes :
       local_time' = [day |-> 0, weekday |-> weekday, hour |-> hour, minute |-> minute]
  /\ cycle' = [kind |-> "entered loop"]
  /\ UNCHANGED <<config, phase, mt5_connected, risk, today, outcome, broker_side, processor,
                 components, accepted, columns, bot_reply, analysis_date>>

\* One pass of the loop of start: _run_analysis_cycle, then the sleep of an
\* hour, or of five minutes when the analysis raised.
run_analysis_cycle ==
  /\ cycle # NoCycle
  /\ \E analysis_ok \in BOOLEAN :
       LET sleep == IF should_run_eod_analysis(local_time) /\ ~analysis_ok
                    THEN 5 ELSE 60
       IN  /\ later(local_time, sleep).day <= MaxDay
           /\ local_time' = later(local_time, sleep)
           /\ IF should_run_eod_analysis(local_time)
              THEN IF analysis_ok
                   THEN /\ analysis_date' = local_time.day
                        /\ cycle' = [kind |-> "analysis completed"]
                   ELSE /\ cycle' = [kind |-> "analysis failed"]
                        /\ UNCHANGED analysis_date
              ELSE /\ cycle' = [kind |-> "not time"]
                   /\ UNCHANGED analysis_date
  /\ UNCHANGED <<config, phase, mt5_connected, risk, today, outcome, broker_side, processor,
                 components, accepted, columns, bot_reply>>

InitEod == MarketWorker(<<>>)

NextEod ==
  \/ start
  \/ run_analysis_cycle

SpecEod == InitEod /\ [][NextEod]_vars

\* ============================================================ configuration
\* Start-up and signal processing with limits as the environment can give
\* them: Settings declares both as plain floats.
InitConfig == Constructed(ConfiguredLossLimits, ConfiguredOrderSizes)

NextConfig ==
  \/ initialize
  \/ initialize_bridge
  \/ process_signal

SpecConfig == InitConfig /\ [][NextConfig]_vars

\* ========================================================= simulated execution
\* _simulate_order_execution with the values it computes. Prices are in E4,
\* a commission (pip value times quantity) in E8; the order id is the reading
\* of the wall clock.
\* base_prices of _get_market_data and its default for other symbols.
simulated_market_data(symbol) ==
  IF symbol = <<"EUR", "USD">> THEN [bid |-> 10850, ask |-> 10852]
  ELSE IF symbol = <<"USD", "JPY">> THEN [bid |-> 1495000, ask |-> 1495200]
  ELSE [bid |-> 10000, ask |-> 10002]

pip_value(symbol) ==
  IF \E i \in 1..Len(symbol) : symbol[i] = "JPY" THEN 100 ELSE 1

simulated_fill(t, clock) ==
  LET market_data == simulated_market_data(t.symbol)
  IN  [t EXCEPT !.price = IF t.action = "BUY" THEN market_data.ask ELSE market_data.bid,
                !.status = "FILLED",
                !.broker_order_id = <<"SIM", clock>>,
                !.commission = pip_value(t.symbol) * t.quantity]

\* One simulated execution; the clock has moved on by the time it returns.
simulate_order ==
  /\ Len(sim_orders) < MaxSimOrders
  /\ utc_clock < MaxClock
  /\ \E symbol \in Symbols, action \in Actions, quantity \in SimQuantities :
       sim_orders' = Append(sim_orders,
                            simulated_fill(NewTrade(symbol, action, quantity), utc_clock))
  /\ utc_clock' = utc_clock + 1
  /\ UNCHANGED <<config, phase, mt5_connected, risk, today, outcome, broker_side,
                 auxiliary, processor, combiner, calculated, position, concurrent>>

\* Time passes.
clock_advances ==
  /\ utc_clock < MaxClock
  /\ utc_clock' = utc_clock + 1
  /\ UNCHANGED <<config, phase, mt5_connected, risk, today, outcome, broker_side,
                 auxiliary, processor, combiner, calculated, position, sim_orders, concurrent>>

\* The wall clock is set back (utcnow is not monotonic).
clock_adjusted ==
  /\ utc_clock > 0
  /\ utc_clock' = utc_clock - 1
  /\ UNCHANGED <<config, phase, mt5_connected, risk, today, outcome, broker_side,
                 auxiliary, processor, combiner, calculated, position, sim_orders, concurrent>>

InitSimulation == ComponentInit("direct", "execution_worker", "running", TRUE, 10000)

NextSimulation ==
  \/ simulate_order
  \/ clock_advances
  \/ clock_adjusted

SpecSimulation == InitSimulation /\ [][NextSimulation]_vars

\* ======================================================== concurrent signals
\* process_signal as the event loop runs it: a call runs until it awaits a
\* collaborator, other calls and the emergency stop run meanwhile, and it
\* resumes when the reply arrives. Each call carries StrongSignal; the day
\* does not change and no loss is booked, so the daily-limit gate passes.
InFlightAt(at) == {t \in Tasks : inflight[t].at = at}

\* From the entry of process_signal to its first await: the three gates, and
\* then either the account query (real account) or, with the simulated
\* account, the sizing and the simulated fill up to the post to the ledger.
process_signal_begins ==
  /\ phase = "running"
  /\ \E t \in Tasks :
       /\ inflight[t] = NotRunning
       /\ first_failing_gate(check_daily_limits.ok, StrongSignal.strength, 1) = "none"
       /\ attempts + Cardinality(InFlightAt("get_account_info")) < MaxTrades
       /\ IF UseSimulation
          THEN LET size == calculate_position_size(StrongSignal.symbol,
                                                   StrongSignal.strength,
                                                   get_account_info(NoReply))
               IN  /\ size > 0
                   /\ inflight' = [inflight EXCEPT ![t] =
                                     [at |-> "record_trade", quantity |-> size]]
                   /\ attempts' = attempts + 1
                   /\ stop_breached' = (stop_breached \/ emergency_stop)
          ELSE /\ inflight' = [inflight EXCEPT ![t] =
                                 [at |-> "get_account_info", quantity |-> 0]]
               /\ UNCHANGED <<attempts, stop_breached>>
  /\ UNCHANGED <<config, phase, mt5_connected, risk, today, outcome, broker_side,
                 auxiliary, processor, combiner, calculated, position, simulation>>

\* The account query returns: the position is sized and, when the size is
\* positive, _execute_order submits the order with place_order.
account_info_arrives ==
  \E t \in Tasks, reply \in AccountReplies :
    /\ inflight[t].at = "get_account_info"
    /\ LET size == calculate_position_size(StrongSignal.symbol, StrongSignal.strength,
                                           get_account_info(reply))
       IN  IF size > 0
           THEN /\ inflight' = [inflight EXCEPT ![t] =
                                  [at |-> "place_order", quantity |-> size]]
                /\ attempts' = attempts + 1
                /\ stop_breached' = (stop_breached \/ emergency_stop)
           ELSE /\ inflight' = [inflight EXCEPT ![t] = NotRunning]
                /\ UNCHANGED <<attempts, stop_breached>>
    /\ UNCHANGED <<config, phase, mt5_connected, risk, today, outcome, broker_side,
                   auxiliary, processor, combiner, calculated, position, simulation>>

\* place_order returns: the trade is marked and posted to the ledger, unless
\* the handler of _execute_real_order itself raised.
place_order_returns ==
  \E t \in Tasks, broker \in BrokerReplies :
    /\ inflight[t].at = "place_order"
    /\ LET x == execute_real_order(NewTrade(StrongSignal.symbol, StrongSignal.action,
                                            inflight[t].quantity), broker)
       IN  /\ inflight' = [inflight EXCEPT ![t] =
                             IF x.raised THEN NotRunning
                             ELSE [at |-> "record_trade", quantity |-> @.quantity]]
           /\ stop_breached' = (stop_breached \/ (x.status = "filled" /\ emergency_stop))
    /\ UNCHANGED <<config, phase, mt5_connected, risk, today, outcome, broker_side,
                   auxiliary, processor, combiner, calculated, position, simulation, attempts>>

\* The post to the ledger returns, whatever the ledger answered, and the call
\* counts its trade.
record_trade_returns ==
  \E t \in Tasks :
    /\ inflight[t].at = "record_trade"
    /\ daily_trades_count' = daily_trades_count + 1
    /\ inflight' = [inflight EXCEPT ![t] = NotRunning]
    /\ UNCHANGED <<config, phase, mt5_connected, trading_enabled, emergency_stop,
                   daily_pnl, last_reset_date, today, outcome, broker_side,
                   auxiliary, processor, combiner, calculated, position, simulation,
                   attempts, stop_breached>>

InitConcurrent ==
  \E i \in Impls, dry \in BOOLEAN :
    ComponentInit(i, "execution_worker", "running", dry, 10000)

NextConcurrent ==
  \/ process_signal_begins
  \/ account_info_arrives
  \/ place_order_returns
  \/ record_trade_returns
  \/ enable_trading
  \/ enable_trading_bridge
  \/ emergency_stop_trading
  \/ activate_emergency_stop

SpecConcurrent == InitConcurrent /\ [][NextConcurrent]_vars

\* ============================================================ order replay
\* The execution step of the order lifecycle applied to the order the engine
\* has already dealt with, as _execute_order applies it to a new one.
replay_order ==
  /\ phase = "running"
  /\ trade # NoTrade
  /\ \E broker \in (IF UseSimulation THEN {"success"} ELSE BrokerReplies) :
       LET x == IF UseSimulation THEN simulate_order_execution(trade)
                ELSE execute_real_order(trade, broker)
       IN  /\ trade' = x.trade
           /\ place_order_calls' = x.calls
           /\ result' = Result("replay_order", x.status, x.reason)
  /\ UNCHANGED <<others, processor, config, phase, mt5_connected, risk, today, recorded,
                 alerts, signal, ledger, broker_side>>

NextReplay ==
  \/ initialize
  \/ initialize_bridge
  \/ process_signal
  \/ replay_order

SpecReplay == Init /\ [][NextReplay]_vars

\* ==================================================================== claims
\* A step in which a public operation changed the risk state or its outcome
\* (Midnight and deal_closed leave both alone).
OperationStep == <<risk, outcome>>' # <<risk, outcome>>

SignalStep == OperationStep /\ result'.op = "process_signal"

GatedStep == OperationStep /\ result'.op \in {"process_signal", "enable_trading"}

SignalRejectedAs(reason) ==
  result = Result("process_signal", "rejected", reason)

\* C1: in every reachable state an active emergency stop implies that
\* trading is disabled.
C1_EmergencyStopImpliesDisabled == emergency_stop => ~trading_enabled

\* C1 witness: enable_trading was attempted, after a day rollover, while the
\* emergency stop was active.
C1_Witness ==
  /\ emergency_stop
  /\ result.op = "enable_trading"
  /\ today > last_reset_date

\* C2: while the emergency stop is active every processed signal is rejected
\* with 'Trading disabled or emergency stop active' and creates no order, and
\* only clear_emergency_stop ends the emergency stop.
C2_EmergencyStopHolds ==
  /\ [](emergency_stop /\ result.op = "process_signal"
          => SignalRejectedAs(ReasonDisabled) /\ trade = NoTrade /\ ~recorded)
  /\ [][emergency_stop /\ ~emergency_stop'
          => result'.op = "clear_emergency_stop"]_vars

\* C2 witness: a signal was processed during an emergency stop, with a day
\* rollover pending.
C2_Witness ==
  /\ emergency_stop
  /\ result.op = "process_signal"
  /\ today > last_reset_date

\* C3: clearing the emergency stop leaves trading disabled and the daily
\* counters unchanged; trading goes from disabled to enabled only through a
\* successful enable_trading, and a signal processed while trading is
\* disabled is rejected without an order.
C3_ClearLeavesDisabled ==
  /\ [][emergency_stop /\ ~emergency_stop'
          => /\ ~trading_enabled'
             /\ UNCHANGED <<daily_pnl, daily_trades_count, last_reset_date>>]_vars
  /\ [][~trading_enabled /\ trading_enabled'
          => result' = Result("enable_trading", "success", "none")]_vars
  /\ [][~trading_enabled /\ SignalStep
          => /\ result' = Result("process_signal", "rejected", ReasonDisabled)
             /\ trade' = NoTrade]_vars

\* C3 witness: the emergency stop was just cleared on a day with trades
\* counted, and trading is still disabled.
C3_Witness ==
  /\ result.op = "clear_emergency_stop"
  /\ ~emergency_stop
  /\ ~trading_enabled
  /\ daily_trades_count > 0

\* C4: every order process_signal creates has a positive quantity that does
\* not exceed max_order_size.
C4_QuantityWithinLimit ==
  trade # NoTrade => /\ trade.quantity > 0
                     /\ trade.quantity <= max_order_size * E4

\* C4 witness: an order whose size was cut down to max_order_size.
C4_Witness ==
  /\ trade # NoTrade
  /\ trade.quantity = max_order_size * E4

\* C5 as stated: once a signal has been rejected for the daily limits and
\* has moved the gate to DISABLED, a subsequent signal is rejected with
\* 'Daily limits exceeded' too.
C5_SubsequentRejectedForLimits ==
  [][SignalRejectedAs(ReasonLimits) /\ ~trading_enabled /\ SignalStep
       => result'.reason = ReasonLimits]_vars

\* C5 amended: when the loss limit is still breached after the reset check
\* and trading is enabled, a processed signal is rejected with 'Daily limits
\* exceeded' and disables trading; the signal after it is rejected with
\* 'Trading disabled or emergency stop active'.
C5_BreachDisablesThenGateRejects ==
  /\ [][/\ trading_enabled /\ ~emergency_stop
        /\ LossLimitBreached(check_and_reset_daily_limits)
        /\ SignalStep
        => /\ result' = Result("process_signal", "rejected", ReasonLimits)
           /\ ~trading_enabled'
           /\ trade' = NoTrade]_vars
  /\ [][SignalRejectedAs(ReasonLimits) /\ ~trading_enabled /\ SignalStep
        => result' = Result("process_signal", "rejected", ReasonDisabled)]_vars

\* C5 witness: a signal was just rejected for the daily limits and the gate
\* is DISABLED without an emergency stop.
C5_Witness ==
  /\ SignalRejectedAs(ReasonLimits)
  /\ ~trading_enabled
  /\ ~emergency_stop
  /\ daily_pnl <= 0 - daily_loss_limit

\* C6 as stated: daily_pnl follows the realized P&L of the day, so a signal
\* processed once the realized loss has reached daily_loss_limit disables
\* trading.
C6_DailyPnlTracksRealized ==
  /\ [][realized_today' # realized_today /\ today' = today
        => daily_pnl' - daily_pnl = realized_today' - realized_today]_vars
  /\ [][/\ trading_enabled /\ ~emergency_stop
        /\ today = last_reset_date
        /\ realized_today <= 0 - daily_loss_limit
        /\ SignalStep
        => ~trading_enabled' /\ trade' = NoTrade]_vars

\* The gate was put in DISABLED by the loss limit or by disable_trading, and
\* no operation has run since.
DisabledByLimitOrCall ==
  /\ ~trading_enabled /\ ~emergency_stop
  /\ \/ result.op = "disable_trading"
     \/ SignalRejectedAs(ReasonLimits)
     \/ result = Result("enable_trading", "failed", ReasonLimits)

\* C7 as stated, for live mode: with the gate DISABLED by the loss limit or
\* by disable_trading and no emergency stop, the first gated operation after
\* the date has passed last_reset_date zeroes the counters, sets
\* last_reset_date to today and restores ENABLED, so a signal is not rejected
\* for trading being disabled.
C7_ResetRestoresTrading ==
  [][/\ DisabledByLimitOrCall
     /\ ~dry_run_mode
     /\ today > last_reset_date
     /\ GatedStep
     => /\ last_reset_date' = today
        /\ daily_trades_count' <= 1
        /\ result' # Result("process_signal", "rejected", ReasonDisabled)]_vars

\* C8 as stated: the counters are zeroed by the first gated operation that
\* runs after midnight, and at no other time.
C8_ResetOncePerDay ==
  /\ [][GatedStep => last_reset_date' = today]_vars
  /\ [][daily_trades_count > 0 /\ daily_trades_count' = 0
        => today > last_reset_date /\ GatedStep]_vars

\* C9 as stated: in dry-run mode with no emergency stop, a signal is never
\* rejected with 'Trading disabled or emergency stop active'.
C9_DryRunAlwaysEnabled ==
  [][dry_run_mode /\ ~emergency_stop /\ SignalStep
       => result' # Result("process_signal", "rejected", ReasonDisabled)]_vars

\* C10 as stated: in both implementations enable_trading fails, and leaves
\* trading disabled, while the emergency stop is active or the daily loss
\* limit is still breached.
C10_EnableRefused ==
  [][/\ result'.op = "enable_trading"
     /\ OperationStep
     /\ (emergency_stop \/ LossLimitBreached(check_and_reset_daily_limits))
     => result'.status = "failed" /\ ~trading_enabled']_vars

\* The terminal statuses of an order.
TerminalStatuses == {"FILLED", "REJECTED", "FAILED"}

C13_OrderEndsTerminal ==
  trade # NoTrade => trade.status \in TerminalStatuses

\* C14 as stated: what the ledger stores for an order carries the order's
\* terminal status, its price and its broker order id.
C14_LedgerMatchesOrder ==
  ledger # NoRecord =>
    /\ ledger.status = trade.status
    /\ ledger.price = trade.price
    /\ ledger.broker_order_id = trade.broker_order_id

\* C15 as stated: an order sent to the broker ends FILLED with the broker's
\* price, commission and order id, or REJECTED with the broker's reason, or
\* FAILED when the broker client raised, and is handed to the ledger.
C15_RealExecutionOutcomes ==
  place_order_calls > 0 =>
    /\ trade # NoTrade
    /\ recorded
    /\ result.status = "filled" =>
         /\ trade.status = "FILLED"
         /\ trade.price = "broker"
         /\ trade.commission = "broker"
         /\ trade.broker_order_id = "broker"
    /\ result.status = "rejected" =>
         trade.status = "REJECTED" /\ result.reason # "none"
    /\ result.status = "error" => trade.status = "FAILED"

\* C16 as stated: every execution attempt, whatever the status its order
\* ends with, adds exactly one to daily_trades_count.
C16_EveryAttemptCounted ==
  [][SignalStep /\ trade' # NoTrade
       => daily_trades_count' =
            check_and_reset_daily_limits.daily_trades_count + 1]_vars

\* C17: an operation calls place_order at most once, and only process_signal
\* for the order it has just created; an order that ended REJECTED or FAILED
\* was submitted once.
C17_NoRetry ==
  /\ place_order_calls \in {0, 1}
  /\ place_order_calls = 1 => result.op = "process_signal" /\ trade # NoTrade
  /\ trade # NoTrade /\ trade.status \in {"REJECTED", "FAILED"}
       => place_order_calls = 1

\* C17 witness: an order the broker rejected, after one place_order call.
C17_Witness ==
  /\ trade # NoTrade
  /\ trade.status = "REJECTED"
  /\ place_order_calls = 1

PublicOperations ==
  {"process_signal", "enable_trading", "disable_trading",
   "emergency_stop_trading", "clear_emergency_stop", "reset_daily_limits"}

ResultStatuses == {"success", "failed", "rejected", "filled", "error"}

\* C19: whatever the broker client, the trade ledger and the signal
\* generators do, every public operation of ExecutionService returns a result
\* carrying a status, and process_market_data returns a signal or none.
C19_NoExceptionCrossesBoundary ==
  /\ result.op \in PublicOperations => result.status \in ResultStatuses
  /\ pm_result # NoPmResult => pm_result.returned \in {"signal", "none"}

\* C19 witness: an exception was raised inside an operation (by the
\* conversion of the signal's action, or by the signal generators) and the
\* operation returned.
C19_Witness ==
  \/ /\ result.op = "process_signal"
     /\ result = Result("process_signal", "error", "exception")
     /\ trade = NoTrade
  \/ /\ pm_result # NoPmResult
     /\ pm_result.why = "error"

\* The history entries that put (symbol, action) in cooldown at time t.
RecentSameKey(symbol, action, t) ==
  {i \in 1..Len(signal_history) :
     /\ signal_history[i].symbol = symbol
     /\ signal_history[i].action = action
     /\ signal_history[i].generated_at >= t - cooldown_minutes}

ConfiguredWeight(action) ==
  SeqSum([i \in 1..Len(combined.contributing) |->
            IF combined.contributing[i].action = action
            THEN combined.contributing[i].registered ELSE 0])

\* C21 as stated: the combined action is BUY when the configured weights of
\* the BUY signals sum to strictly more than those of the SELL signals, SELL
\* in the mirror case, and no combined signal is emitted on a tie or when no
\* generator contributes.
C21_ActionByWeightTotals ==
  combined # NoCombined =>
    LET buy == ConfiguredWeight("BUY")
        sell == ConfiguredWeight("SELL")
    IN  /\ buy > sell => combined.kind = "signal" /\ combined.action = "BUY"
        /\ sell > buy => combined.kind = "signal" /\ combined.action = "SELL"
        /\ buy = sell => combined.kind = "none"

\* C22 as stated: the combined strength and confidence are the means of the
\* contributing signals' strength and confidence weighted by the generators'
\* configured weights; a BUY of 0.8 / 0.6 with weight 1.0 and a SELL of
\* 0.4 / 0.5 with weight 2.0 combine to SELL with strength 1.6 / 3.0.
C22_WeightNormalizedMeans ==
  LET c == combined.contributing
      n == Len(c)
      configured == SeqSum([i \in 1..n |-> c[i].registered])
      strength == SeqSum([i \in 1..n |-> c[i].strength * c[i].registered])
      confidence == SeqSum([i \in 1..n |-> c[i].confidence * c[i].registered])
      example == <<[action |-> "BUY", strength |-> 80, confidence |-> 60, registered |-> 10],
                   [action |-> "SELL", strength |-> 40, confidence |-> 50, registered |-> 20]>>
      stripped == [i \in 1..n |->
                     [action |-> c[i].action, strength |-> c[i].strength,
                      confidence |-> c[i].confidence, registered |-> c[i].registered]]
  IN  /\ combined # NoCombined /\ combined.kind = "signal" =>
           /\ configured # 0
           /\ combined.strength_sum * configured = strength * combined.total_weight
           /\ combined.confidence_sum * configured = confidence * combined.total_weight
      /\ combined # NoCombined /\ stripped = example =>
           /\ combined.kind = "signal"
           /\ combined.action = "SELL"
           /\ combined.strength_sum * 30 = 1600 * combined.total_weight

\* C23 as stated: every contributing signal votes with the weight its own
\* generator was added with.
C23_OwnConfiguredWeight ==
  combined # NoCombined =>
    \A i \in 1..Len(combined.contributing) :
       combined.contributing[i].vote = combined.contributing[i].registered

\* Whether the quotient num / den lies in [0, 1], in hundredths.
WithinUnit(num, den) ==
  IF den > 0 THEN 0 <= num /\ num <= 100 * den
  ELSE num <= 0 /\ 100 * den <= num

\* C24 as stated: the strength and the confidence of every combined signal
\* lie in [0, 1], whatever weights the generators were added with.
C24_CombinedWithinUnit ==
  combined # NoCombined /\ combined.kind = "signal" =>
    /\ WithinUnit(combined.strength_sum, combined.total_weight)
    /\ WithinUnit(combined.confidence_sum, combined.total_weight)

\* C25 as stated: calculate of each generator returns a Signal or none and
\* never raises: none for a series shorter than required_periods or giving
\* NaN, and a Signal that generate_signals collects for the combiner
\* whenever the firing condition holds.
C25_CalculateReturnsSignalOrNone ==
  calculated # NoCalculation =>
    /\ calculated.kind \in {"signal", "none"}
    /\ ~calculated.series.enough \/ calculated.series.nan => calculated.kind = "none"
    /\ calculated.fired => calculated.kind = "signal" /\ calculated.collected

\* C26: _calculate_position_size returns min(balance * 0.01 * |strength|,
\* max_order_size), for a symbol that starts or ends with USD divided by
\* 100,000 and rounded to the nearest 0.01 lot; balance 10,000 with strength
\* 0.8 gives 80, and balance 100,000 with strength 1.0 and a cap of 500
\* gives 500.
C26_PositionSizeFormula ==
  position # NoSize /\ position.account # NoAccount =>
    LET risked == position.account.balance * Abs(position.strength)
        capped == IF risked < max_order_size * E4 THEN risked ELSE max_order_size * E4
        forex == position.symbol[1] = "USD" \/ position.symbol[2] = "USD"
    IN  /\ ~forex => position.size = capped
        /\ forex => /\ position.size % 100 = 0
                    /\ Abs(position.size * LotUnits - capped) <= 50 * LotUnits
        /\ ~forex /\ position.account.balance = 10000 /\ position.strength = 80
             => position.size = 80 * E4
        /\ ~forex /\ position.account.balance = 100000 /\ position.strength = 100
             /\ max_order_size = 500
             => position.size = 500 * E4

\* C26 witness: balance 100,000 and strength 1.0 were sized under a cap of
\* 500 for a symbol that is not converted to lots.
C26_Witness ==
  /\ position # NoSize
  /\ position.account # NoAccount
  /\ position.account.balance = 100000
  /\ position.strength = 100
  /\ max_order_size = 500
  /\ position.symbol = <<"EUR", "GBP">>
  /\ position.size = 500 * E4

\* C27 as stated: every simulated execution is FILLED, at the ask for a BUY
\* and at the bid for a SELL, with a commission of the pip value times the
\* quantity, and no two simulated orders have the same order id.
C27_SimulatedFill ==
  /\ \A i \in 1..Len(sim_orders) :
       LET o == sim_orders[i]
           quote == simulated_market_data(o.symbol)
       IN  /\ o.status = "FILLED"
           /\ o.action = "BUY" => o.price = quote.ask
           /\ o.action = "SELL" => o.price = quote.bid
           /\ o.commission = pip_value(o.symbol) * o.quantity
  /\ \A i, j \in 1..Len(sim_orders) :
       i # j => sim_orders[i].broker_order_id # sim_orders[j].broker_order_id

\* C28 as stated: with a negative daily_loss_limit or max_order_size the
\* service does not come up and processes no signal.
C28_InvalidConfigurationIsFatal ==
  (daily_loss_limit < 0 \/ max_order_size < 0)
    => /\ phase # "running"
       /\ result.op # "process_signal"

\* C29 as stated: no order is submitted to the broker and no fill is produced
\* while emergency_stop is true, also when the stop is activated while a
\* process_signal call is suspended at an await.
C29_NoOrderDuringEmergencyStop == ~stop_breached

\* C30 as stated: once every concurrent process_signal call has completed,
\* daily_trades_count has grown by the number of calls that reached order
\* execution.
C30_NoLostCounterUpdate ==
  (\A t \in Tasks : inflight[t] = NotRunning) => daily_trades_count = attempts

GateReasons == {ReasonDisabled, ReasonLimits, ReasonWeak, ReasonSize}

\* A process_signal step that ended in a rejection at one of the four gates.
GateRejectionStep == /\ SignalStep
                     /\ result'.status = "rejected"
                     /\ result'.reason \in GateReasons

\* C31 as stated: a signal rejected at any of the four gates creates no
\* Trade, places no order with the broker, sends nothing to the ledger and
\* leaves daily_trades_count unchanged.
C31_RejectionLeavesNoTrace ==
  [][GateRejectionStep =>
       /\ trade' = NoTrade
       /\ place_order_calls' = 0
       /\ ~recorded' /\ ledger' = NoRecord
       /\ daily_trades_count' = daily_trades_count]_vars

\* C31 amended: a signal rejected at any of the four gates creates no Trade,
\* places no order, sends nothing to the ledger and never increments
\* daily_trades_count: the counter is unchanged, or zeroed when the signal
\* passed the first gate on a new date; a signal that fails one of the first
\* three gates always ends as such a rejection, never as an error.
C31_RejectionCountsNothing ==
  [][SignalStep =>
       LET closed == ~trading_enabled \/ emergency_stop
           breached == LossLimitBreached(check_and_reset_daily_limits)
           weak == Abs(signal'.strength) < MinExecutionStrength
       IN  /\ GateRejectionStep =>
                /\ trade' = NoTrade
                /\ place_order_calls' = 0
                /\ ~recorded' /\ ledger' = NoRecord
                /\ daily_trades_count' =
                     IF ~closed /\ today > last_reset_date THEN 0
                     ELSE daily_trades_count
           /\ closed \/ breached \/ weak => GateRejectionStep]_vars

\* C31 witness: after an order was filled, a weak signal was rejected on a
\* later date with the counter zeroed by the reset and no order created.
C31_Witness ==
  /\ SignalRejectedAs(ReasonWeak)
  /\ trade = NoTrade
  /\ open_deal
  /\ today > 0 /\ last_reset_date = today
  /\ daily_trades_count = 0

\* C32: a process_market_data call that accepts a signal (thresholds passed,
\* not in cooldown) appends it to signal_history and, when that makes more
\* than 1000 entries, drops the oldest; a call that rejects leaves the
\* history unchanged; the history never holds more than 1000 entries.
C32_HistoryHoldsAcceptedSignals ==
  /\ [][pm_result' # pm_result =>
          IF pm_result'.returned = "signal"
          THEN LET entry == [symbol |-> pm_result'.symbol, action |-> pm_result'.action,
                             generated_at |-> now]
                   n == Len(signal_history)
               IN  /\ pm_result'.confidence >= min_confidence
                   /\ pm_result'.strength >= min_strength
                   /\ RecentSameKey(entry.symbol, entry.action, now) = {}
                   /\ Len(signal_history') = IF n < HistoryCap THEN n + 1 ELSE HistoryCap
                   /\ signal_history'[Len(signal_history')] = entry
                   /\ SubSeq(signal_history', 1, Len(signal_history') - 1) =
                        SubSeq(signal_history, n + 2 - Len(signal_history'), n)
          ELSE signal_history' = signal_history]_vars
  /\ [](Len(signal_history) <= HistoryCap)

\* C32 witness: a signal was accepted into a history that already held 1000
\* entries, and the oldest entry of the initial history is gone.
C32_Witness ==
  /\ pm_result # NoPmResult
  /\ pm_result.returned = "signal"
  /\ Len(signal_history) = HistoryCap
  /\ signal_history[HistoryCap].generated_at = pm_result.at
  /\ signal_history[1] = LongHistory[2]

\* C33 as stated: calculate of each generator leaves the DataFrame it is given
\* unchanged (same columns) and, called again on the same series, returns
\* the same result.
C33_GeneratorsArePure ==
  [][calculated' # NoCalculation =>
       /\ columns' = columns
       /\ (/\ calculated # NoCalculation
           /\ calculated'.generator = calculated.generator
           /\ calculated'.series = calculated.series) => calculated' = calculated]_vars

\* C34 as stated: every operation that changes trading_enabled or
\* emergency_stop sends an alert.
C34_EveryTransitionAlerts ==
  [][(trading_enabled' # trading_enabled \/ emergency_stop' # emergency_stop)
       => alerts' # <<>>]_vars

\* C35: reset_daily_limits zeroes daily_pnl and daily_trades_count, sets
\* last_reset_date to today and leaves trading_enabled and emergency_stop
\* unchanged; a disabled gate becomes enabled again only by enable_trading.
C35_ResetLeavesGateAlone ==
  /\ [][OperationStep /\ result'.op = "reset_daily_limits" =>
          /\ daily_pnl' = 0
          /\ daily_trades_count' = 0
          /\ last_reset_date' = today
          /\ trading_enabled' = trading_enabled
          /\ emergency_stop' = emergency_stop]_vars
  /\ [][~trading_enabled /\ trading_enabled' => result'.op = "enable_trading"]_vars

\* C35 witness: in live mode, on a later date and after an order was filled,
\* the explicit reset has run and the gate it found disabled is still
\* disabled.
C35_Witness ==
  /\ result = Result("reset_daily_limits", "success", "none")
  /\ ~dry_run_mode
  /\ ~trading_enabled /\ ~emergency_stop
  /\ open_deal
  /\ today > 0 /\ last_reset_date = today
  /\ daily_pnl = 0 /\ daily_trades_count = 0

\* C36: in live mode the HTTP-bridge ExecutionService never produces a
\* simulated fill, whatever the connection state and whatever initialize and
\* enable_trading did before.
C36_NoSimulatedFillInLiveMode ==
  impl = "bridge" /\ ~dry_run_mode /\ trade.status = "FILLED" =>
    trade.broker_order_id # "SIM"

\* C37: in dry-run mode a signal of strength 0.7 to 1 for a symbol that
\* starts or ends with 'USD' never results in an order: no trade is created,
\* the broker is not called and nothing is posted to the ledger; when the
\* signal reaches the sizing, the lot size is 0.00 and the signal is rejected
\* with 'Position size calculation failed'.
C37_DryRunNeverTradesUsd ==
  [][(/\ OperationStep /\ result'.op = "process_signal"
      /\ dry_run_mode
      /\ signal'.strength \in MinExecutionStrength..100
      /\ endswith_USD(position'.symbol) \/ startswith_USD(position'.symbol))
       => /\ trade' = NoTrade /\ place_order_calls' = 0 /\ ~recorded'
          /\ result'.status = "rejected"
          /\ daily_trades_count' <= daily_trades_count
          /\ ReachesSizing(signal'.strength) =>
               /\ position'.account.balance = SimulatedBalance
               /\ position'.size = 0
               /\ result'.reason = ReasonSize]_vars

\* C37 witness: trading was enabled in dry-run mode and a BUY signal of
\* strength 1.00 for USDJPY was sized on the simulated balance to 0.00 lot and
\* rejected at the sizing gate.
C37_Witness ==
  /\ dry_run_mode /\ trading_enabled
  /\ signal = [kind |-> "signal", strength |-> 100]
  /\ position.kind = "size" /\ position.symbol = <<"USD", "JPY">>
  /\ position.size = 0
  /\ result = Result("process_signal", "rejected", ReasonSize)
  /\ trade = NoTrade

\* In dry-run mode a symbol without 'USD' at either end is sized in units and
\* its signal is filled (the case C37 excludes).
C37_OtherSymbolsTrade ==
  /\ dry_run_mode
  /\ position.kind = "size" /\ position.symbol = <<"EUR", "GBP">>
  /\ trade.status = "FILLED"

\* C38: whenever the /stop_trading handler of the bot replies
\* 'EMERGENCY STOP ACTIVATED', the execution worker is emergency-stopped: the
\* request passed the token check and emergency_stop_trading ran.
C38_ReplyMeansStopped ==
  [][bot_reply' # bot_reply /\ bot_reply'.text = "EMERGENCY STOP ACTIVATED"
       => /\ emergency_stop' /\ ~trading_enabled'
          /\ result' = Result("emergency_stop_trading", "success", "none")]_vars

\* C39: on a weekday for which no end-of-day analysis is stored, every check
\* of the cycle made at or after 16:30 local time starts the analysis,
\* whatever minute of the hour the cycle checks at.
C39_CheckAfterCloseStartsAnalysis ==
  [][(/\ cycle # NoCycle /\ local_time' # local_time
      /\ local_time.weekday < 5
      /\ analysis_date = NoAnalysis \/ analysis_date < local_time.day
      /\ local_time.hour * 60 + local_time.minute >= 16 * 60 + 30)
       => cycle'.kind \in {"analysis completed", "analysis failed"}]_vars

\* C40: signal_history is always ordered by non-decreasing generated_at, so
\* the backward scan of _is_in_cooldown, which stops at the first entry older
\* than the cutoff, answers as a scan of the whole history does.
C40_HistoryOrderedByTime ==
  /\ \A i \in 1..(Len(signal_history) - 1) :
        signal_history[i].generated_at <= signal_history[i + 1].generated_at
  /\ \A symbol \in MarketSymbols, action \in Actions :
        is_in_cooldown(symbol, action) <=> RecentSameKey(symbol, action, now) # {}

\* The backward scan misses an entry that is within the cooldown window.
C40_ScanMissesRecentSignal ==
  \E symbol \in MarketSymbols, action \in Actions :
     ~is_in_cooldown(symbol, action) /\ RecentSameKey(symbol, action, now) # {}

====
